---- MODULE Spec2Model ----
(***************************************************************************)
(* Task tracking canister (src/src/index.ts).                              *)
(*                                                                         *)
(* The state of the canister is the StableBTreeMap taskStorage.  Every     *)
(* exported function is one handler; the host runs one handler at a time,  *)
(* so every handler is one atomic action.  The handlers are operators that *)
(* map their arguments and the current store to the new store and the      *)
(* Result they return.                                                     *)
(***************************************************************************)
EXTENDS Integers, Sequences, FiniteSets, TLC

VARIABLES
    tasks,          \* taskStorage: key (task id) -> Task record
    used,           \* the ids uuidv4() has returned so far
    time,           \* the timestamp ic.time() returns to the next update call
    last,           \* the last call: operation, arguments and returned Result
    deleted,        \* history: ids for which deleteTask returned Ok
    commentCalls    \* history: id -> number of addTaskComment calls that returned Ok

vars == <<tasks, used, time, last, deleted, commentCalls>>

----------------------------------------------------------------------------
(* Bounds of the model *)

\* number of ids uuidv4 can hand out (task ids are 1..MaxIds; their integer
\* order stands for the lexicographic order of the uuid strings)
MaxIds == 2
\* number of update calls in a behaviour; every update call is a message with
\* a later timestamp than the one before
MaxTime == 3
\* largest number of tasks in the stores the pagination queries are run on
MaxPageTasks == 6

Ids == 1..MaxIds
PageIds == 1..MaxPageTasks
AllIds == Ids \cup PageIds

\* Two callers.
Principals == {1, 2}

\* Principal.toString(): the textual form of the principal.
toString(p) == IF p = 1 THEN "aaaaa-aa" ELSE "2vxsx-fae"

----------------------------------------------------------------------------
(* Values *)

\* Opt<nat64>: Opt.None and Opt.Some(t)
None == <<>>
Some(t) == <<t>>

\* Result.Ok(v) / Result.Err(message)
Ok(v) == <<"Ok", v>>
Err(m) == <<"Err", m>>
IsOk(r) == r[1] = "Ok"
IsErr(r) == r[1] = "Err"

\* The error messages of the handlers.
NotFoundMsg(id) == <<"Task with id:", id, " not found">>
NotFoundDeleteMsg(id) == <<"Task with id:", id, " not found, could not be deleted">>
NotAuthorizedMsg == <<"You are not authorized to access Task">>
NotAuthorizedPriorityMsg == <<"You are not authorized to set task priority">>
UnassignedMsg == <<"No one was assigned the task">>
InvalidInputMsg == <<"Missing or invalid input data">>
InvalidTagsMsg == <<"Invalid tags">>

\* TaskPayload: a record with (some of) the four payload fields.
PayloadFields == {"title", "description", "assigned_to", "due_date"}

FullPayload == [title |-> "a", description |-> "a", assigned_to |-> "a", due_date |-> "a"]
\* the payload with field f empty
EmptyAt(f) == [g \in PayloadFields |-> IF g = f THEN "" ELSE "a"]
\* the payload with field f missing
MissingAt(f) == [g \in PayloadFields \ {f} |-> "a"]

Payloads == {FullPayload} \cup {EmptyAt(f) : f \in PayloadFields}
                          \cup {MissingAt(f) : f \in PayloadFields}

\* !payload.f : the field is undefined or the empty string
Falsy(payload, f) == f \notin DOMAIN payload \/ payload[f] = ""

\* { ...a, ...b } : the fields of b override the fields of a
Spread(a, b) == [f \in DOMAIN a \cup DOMAIN b |-> IF f \in DOMAIN b THEN b[f] ELSE a[f]]

TagInputs == {<<>>, <<"x">>, <<"x", "y">>}
PriorityInputs == {"", "high"}
CommentInputs == {"c", "d"}

----------------------------------------------------------------------------
(* StableBTreeMap *)

\* taskStorage.get(id): the task or absent
Has(store, id) == id \in DOMAIN store

\* taskStorage.insert(key, value)
insert(store, key, value) ==
    [k \in DOMAIN store \cup {key} |-> IF k = key THEN value ELSE store[k]]

\* taskStorage.remove(key)
remove(store, key) == [k \in DOMAIN store \ {key} |-> store[k]]

\* the keys of the store in key order
RECURSIVE SortedKeys(_)
SortedKeys(S) ==
    IF S = {} THEN <<>>
    ELSE LET m == CHOOSE x \in S : \A y \in S : x <= y
         IN <<m>> \o SortedKeys(S \ {m})

\* taskStorage.values(): the tasks in key order
values(store) ==
    LET ks == SortedKeys(DOMAIN store) IN [i \in 1..Len(ks) |-> store[ks[i]]]

\* Array.prototype.slice(start, end)
slice(s, start, end) ==
    LET len == Len(s)
        k == IF start < 0 THEN (IF len + start > 0 THEN len + start ELSE 0)
             ELSE (IF start < len THEN start ELSE len)
        final == IF end < 0 THEN (IF len + end > 0 THEN len + end ELSE 0)
                 ELSE (IF end < len THEN end ELSE len)
    IN SubSeq(s, k + 1, final)

initialLoadSize == 4

\* an id generator that can return an id it has returned before
uuidv4_repeating(usedIds) == Ids

\* uuidv4(): the ids it can return, given the ids it has returned before
uuidv4(usedIds) == Ids \ usedIds

\* what a handler hands back: the store it leaves and the Result it returns
Reply(store, result) == [store |-> store, result |-> result]

----------------------------------------------------------------------------
(* Handlers *)

getInitialTasks(store) ==
    LET initialTasks == slice(values(store), 0, initialLoadSize)
    IN Reply(store, Ok(initialTasks))

\* slice(offset, limit): the end of the page taken for its length
loadMoreTasks_endIsLimit(store, offset, limit) ==
    LET moreTasks == slice(values(store), offset, limit)
    IN Reply(store, Ok(moreTasks))

loadMoreTasks(store, offset, limit) ==
    LET moreTasks == slice(values(store), offset, offset + limit)
    IN Reply(store, Ok(moreTasks))

getTask(store, id, caller) ==
    IF ~Has(store, id) THEN Reply(store, Err(NotFoundMsg(id)))
    ELSE IF toString(store[id].creator) # toString(caller)
         THEN Reply(store, Err(NotAuthorizedMsg))
    ELSE Reply(store, Ok(store[id]))

\* completedTask without the check of assigned_to
completedTask_noAssigneeCheck(store, id) ==
    IF ~Has(store, id) THEN Reply(store, Err(NotFoundMsg(id)))
    ELSE LET task == store[id]
             completeTask == Spread(task, [status |-> "Completed"])
         IN Reply(insert(store, task.id, completeTask), Ok(completeTask))

completedTask(store, id) ==
    IF ~Has(store, id) THEN Reply(store, Err(NotFoundMsg(id)))
    ELSE IF store[id].assigned_to = "" THEN Reply(store, Err(UnassignedMsg))
    ELSE LET task == store[id]
             completeTask == Spread(task, [status |-> "Completed"])
         IN Reply(insert(store, task.id, completeTask), Ok(completeTask))

\* addTask that validates the title only
addTask_titleOnly(store, payload, caller, newId, now) ==
    IF Falsy(payload, "title")
    THEN Reply(store, Err(InvalidInputMsg))
    ELSE LET newTask == Spread([creator |-> caller,
                                id |-> newId,
                                created_date |-> now,
                                updated_at |-> None,
                                tags |-> <<>>,
                                status |-> "In Progress",
                                priority |-> "",
                                comments |-> <<>>], payload)
         IN Reply(insert(store, newTask.id, newTask), Ok(newTask))

addTask(store, payload, caller, newId, now) ==
    IF \E f \in PayloadFields : Falsy(payload, f)
    THEN Reply(store, Err(InvalidInputMsg))
    ELSE LET newTask == Spread([creator |-> caller,
                                id |-> newId,
                                created_date |-> now,
                                updated_at |-> None,
                                tags |-> <<>>,
                                status |-> "In Progress",
                                priority |-> "",
                                comments |-> <<>>], payload)
         IN Reply(insert(store, newTask.id, newTask), Ok(newTask))

addTags(store, id, tags, caller, now) ==
    IF Len(tags) = 0 THEN Reply(store, Err(InvalidTagsMsg))
    ELSE IF ~Has(store, id) THEN Reply(store, Err(NotFoundMsg(id)))
    ELSE IF toString(store[id].creator) # toString(caller)
         THEN Reply(store, Err(NotAuthorizedMsg))
    ELSE LET task == store[id]
             updatedTask == Spread(task, [tags |-> task.tags \o tags,
                                          updated_at |-> Some(now)])
         IN Reply(insert(store, task.id, updatedTask), Ok(updatedTask))

\* updateTask that also puts the status back to its default
updateTask_resetStatus(store, id, payload, caller, now) ==
    IF ~Has(store, id) THEN Reply(store, Err(NotFoundMsg(id)))
    ELSE IF toString(store[id].creator) # toString(caller)
         THEN Reply(store, Err(NotAuthorizedMsg))
    ELSE LET task == store[id]
             updatedTask == Spread(Spread(task, payload),
                                   [status |-> "In Progress", updated_at |-> Some(now)])
         IN Reply(insert(store, task.id, updatedTask), Ok(updatedTask))

updateTask(store, id, payload, caller, now) ==
    IF ~Has(store, id) THEN Reply(store, Err(NotFoundMsg(id)))
    ELSE IF toString(store[id].creator) # toString(caller)
         THEN Reply(store, Err(NotAuthorizedMsg))
    ELSE LET task == store[id]
             updatedTask == Spread(Spread(task, payload), [updated_at |-> Some(now)])
         IN Reply(insert(store, task.id, updatedTask), Ok(updatedTask))

\* deleteTask that returns the task without removing it
deleteTask_noRemove(store, id, caller) ==
    IF ~Has(store, id) THEN Reply(store, Err(NotFoundDeleteMsg(id)))
    ELSE IF toString(store[id].creator) # toString(caller)
         THEN Reply(store, Err(NotAuthorizedMsg))
    ELSE Reply(store, Ok(store[id]))

deleteTask(store, id, caller) ==
    IF ~Has(store, id) THEN Reply(store, Err(NotFoundDeleteMsg(id)))
    ELSE IF toString(store[id].creator) # toString(caller)
         THEN Reply(store, Err(NotAuthorizedMsg))
    ELSE Reply(remove(store, id), Ok(store[id]))

\* addTaskComment that replaces the comments by the new one
addTaskComment_replace(store, id, comment) ==
    IF ~Has(store, id) THEN Reply(store, Err(NotFoundMsg(id)))
    ELSE LET task == store[id]
             updatedComments == <<comment>>
             updatedTask == Spread(task, [comments |-> updatedComments])
         IN Reply(insert(store, task.id, updatedTask), Ok(updatedTask))

addTaskComment(store, id, comment) ==
    IF ~Has(store, id) THEN Reply(store, Err(NotFoundMsg(id)))
    ELSE LET task == store[id]
             updatedComments == Append(task.comments, comment)
             updatedTask == Spread(task, [comments |-> updatedComments])
         IN Reply(insert(store, task.id, updatedTask), Ok(updatedTask))

\* setTaskPriority without the check of the creator
setTaskPriority_noCreatorCheck(store, id, priority, caller) ==
    IF ~Has(store, id) THEN Reply(store, Err(NotFoundMsg(id)))
    ELSE LET task == store[id]
             updatedTask == Spread(task, [priority |-> priority])
         IN Reply(insert(store, task.id, updatedTask), Ok(updatedTask))

setTaskPriority(store, id, priority, caller) ==
    IF ~Has(store, id) THEN Reply(store, Err(NotFoundMsg(id)))
    ELSE IF toString(store[id].creator) # toString(caller)
         THEN Reply(store, Err(NotAuthorizedPriorityMsg))
    ELSE LET task == store[id]
             updatedTask == Spread(task, [priority |-> priority])
         IN Reply(insert(store, task.id, updatedTask), Ok(updatedTask))

----------------------------------------------------------------------------
(* Calls *)

\* the record of a call: the operation, who invoked it, its arguments, its Result
Call(op, caller, id, args, result) ==
    [op |-> op, caller |-> caller, id |-> id, args |-> args, res |-> result]

NoCall == Call("none", 0, 0, <<>>, Ok(<<>>))

Init ==
    /\ tasks = <<>>
    /\ used = {}
    /\ time = 0
    /\ last = NoCall
    /\ deleted = {}
    /\ commentCalls = [id \in AllIds |-> 0]

\* an update call: a message executed at timestamp `time`
UpdateCall(op, caller, id, args, r) ==
    /\ time < MaxTime
    /\ time' = time + 1
    /\ tasks' = r.store
    /\ last' = Call(op, caller, id, args, r.result)

\* a query call: no message timestamp is consumed
QueryCall(op, caller, id, args, r) ==
    /\ tasks' = r.store
    /\ last' = Call(op, caller, id, args, r.result)
    /\ UNCHANGED <<used, time, deleted, commentCalls>>

GetInitialTasks ==
    \E caller \in Principals :
        QueryCall("getInitialTasks", caller, 0, <<>>, getInitialTasks(tasks))

LoadMoreTasks ==
    \E caller \in Principals, offset \in -1..(MaxPageTasks + 1), limit \in -1..(MaxPageTasks + 1) :
        QueryCall("loadMoreTasks", caller, 0, <<offset, limit>>,
                  loadMoreTasks(tasks, offset, limit))

GetTask ==
    \E id \in Ids, caller \in Principals :
        QueryCall("getTask", caller, id, <<>>, getTask(tasks, id, caller))

CompletedTask ==
    \E id \in Ids, caller \in Principals :
        /\ UpdateCall("completedTask", caller, id, <<>>, completedTask(tasks, id))
        /\ UNCHANGED <<used, deleted, commentCalls>>

AddTask ==
    \E payload \in Payloads, caller \in Principals :
        \* uuidv4() is only called once the payload has passed the validation
        \E newId \in (IF \E f \in PayloadFields : Falsy(payload, f) THEN {0} ELSE uuidv4(used)) :
            LET r == addTask(tasks, payload, caller, newId, time)
            IN /\ UpdateCall("addTask", caller, newId, <<payload>>, r)
               /\ used' = IF IsOk(r.result) THEN used \cup {newId} ELSE used
               /\ UNCHANGED <<deleted, commentCalls>>

AddTags ==
    \E id \in Ids, tags \in TagInputs, caller \in Principals :
        /\ UpdateCall("addTags", caller, id, <<tags>>, addTags(tasks, id, tags, caller, time))
        /\ UNCHANGED <<used, deleted, commentCalls>>

UpdateTask ==
    \E id \in Ids, payload \in Payloads, caller \in Principals :
        /\ UpdateCall("updateTask", caller, id, <<payload>>,
                      updateTask(tasks, id, payload, caller, time))
        /\ UNCHANGED <<used, deleted, commentCalls>>

DeleteTask ==
    \E id \in Ids, caller \in Principals :
        LET r == deleteTask(tasks, id, caller)
        IN /\ UpdateCall("deleteTask", caller, id, <<>>, r)
           /\ deleted' = IF IsOk(r.result) THEN deleted \cup {id} ELSE deleted
           /\ UNCHANGED <<used, commentCalls>>

AddTaskComment ==
    \E id \in Ids, comment \in CommentInputs, caller \in Principals :
        LET r == addTaskComment(tasks, id, comment)
        IN /\ UpdateCall("addTaskComment", caller, id, <<comment>>, r)
           /\ commentCalls' = IF IsOk(r.result)
                              THEN [commentCalls EXCEPT ![id] = @ + 1]
                              ELSE commentCalls
           /\ UNCHANGED <<used, deleted>>

SetTaskPriority ==
    \E id \in Ids, priority \in PriorityInputs, caller \in Principals :
        /\ UpdateCall("setTaskPriority", caller, id, <<priority>>,
                      setTaskPriority(tasks, id, priority, caller))
        /\ UNCHANGED <<used, deleted, commentCalls>>

Next ==
    \/ GetTask
    \/ CompletedTask
    \/ AddTask
    \/ AddTags
    \/ UpdateTask
    \/ DeleteTask
    \/ AddTaskComment
    \/ SetTaskPriority

Spec == Init /\ [][Next]_vars

----------------------------------------------------------------------------
(* Pagination: the two paging queries run on stores of up to MaxPageTasks   *)
(* tasks.  The store over the keys S is the one addTask leaves when it is   *)
(* called once per key, in key order.                                        *)

RECURSIVE PageStore(_, _)
PageStore(ks, n) ==
    IF n = 0 THEN <<>>
    ELSE addTask(PageStore(ks, n - 1), FullPayload, 1 + (n % 2), ks[n], n - 1).store

PageInit ==
    \E S \in SUBSET PageIds :
        /\ tasks = PageStore(SortedKeys(S), Cardinality(S))
        /\ used = S
        /\ time = Cardinality(S)
        /\ last = NoCall
        /\ deleted = {}
        /\ commentCalls = [id \in AllIds |-> 0]

PageNext ==
    \/ GetInitialTasks
    \/ LoadMoreTasks

PageSpec == PageInit /\ [][PageNext]_vars

----------------------------------------------------------------------------
(* Properties *)

IsNotFound(r, id) == IsErr(r) /\ r[2] \in {NotFoundMsg(id), NotFoundDeleteMsg(id)}
IsNotAuthorized(r) == IsErr(r) /\ r[2] \in {NotAuthorizedMsg, NotAuthorizedPriorityMsg}
IsInvalidInput(r) == IsErr(r) /\ r[2] = InvalidInputMsg
IsUnassigned(r) == IsErr(r) /\ r[2] = UnassignedMsg

\* every task but the one stored under id is the same before and after the step
OthersUnchanged(id) ==
    /\ DOMAIN tasks' \ {id} = DOMAIN tasks \ {id}
    /\ \A k \in DOMAIN tasks \ {id} : tasks'[k] = tasks[k]

\* the step alters or removes the task stored under id
Altered(id) == id \in DOMAIN tasks /\ (id \notin DOMAIN tasks' \/ tasks'[id] # tasks[id])

\* C1: a stored task is altered or removed by updateTask, addTags,
\* setTaskPriority, completedTask or deleteTask only when the invoking
\* principal is the creator of that task.
C1_OnlyCreatorMutates ==
    [][\A id \in DOMAIN tasks :
          (/\ last'.op \in {"updateTask", "addTags", "setTaskPriority",
                            "completedTask", "deleteTask"}
           /\ IsOk(last'.res)
           /\ Altered(id))
          => last'.caller = tasks[id].creator]_vars

\* C2: getTask, updateTask, deleteTask, addTags (with non-empty tags) and
\* setTaskPriority, called on an existing task by a principal that is not its
\* creator, return the NotAuthorized error and leave the store unchanged.
C2_NonCreatorRejected ==
    [][(/\ last'.op \in {"getTask", "updateTask", "deleteTask", "addTags", "setTaskPriority"}
        /\ last'.id \in DOMAIN tasks
        /\ last'.caller # tasks[last'.id].creator
        /\ (last'.op = "addTags" => last'.args[1] # <<>>))
       => (IsNotAuthorized(last'.res) /\ tasks' = tasks)]_vars

C2_Witness ==
    /\ last.op = "setTaskPriority"
    /\ last.id \in DOMAIN tasks
    /\ last.caller # tasks[last.id].creator
    /\ IsNotAuthorized(last.res)

\* C3: every stored task carries the id it is stored under (so no two stored
\* tasks share an id), and no step changes the creator of a task that stays
\* in the store.
C3_IdAndCreatorFixed ==
    /\ [](\A id \in DOMAIN tasks : tasks[id].id = id)
    /\ [][\A id \in DOMAIN tasks \cap DOMAIN tasks' :
             tasks'[id].creator = tasks[id].creator]_vars

C3_Witness ==
    /\ Cardinality(DOMAIN tasks) = 2
    /\ last.op = "updateTask"
    /\ IsOk(last.res)
    /\ \E id \in DOMAIN tasks : tasks[id].creator # last.caller

\* C4: addTask with a payload in which one of the four fields is empty or
\* missing returns InvalidInput and leaves the store unchanged; with the four
\* fields non-empty it inserts exactly one new task, with creator = caller,
\* status "In Progress", no tags, no comments, empty priority and no updated_at.
C4_AddTaskValidation ==
    [][last'.op = "addTask" =>
          LET payload == last'.args[1] IN
          IF \E f \in PayloadFields : f \notin DOMAIN payload \/ payload[f] = ""
          THEN IsInvalidInput(last'.res) /\ tasks' = tasks
          ELSE /\ IsOk(last'.res)
               /\ \E id \in DOMAIN tasks' \ DOMAIN tasks :
                     /\ DOMAIN tasks' = DOMAIN tasks \cup {id}
                     /\ OthersUnchanged(id)
                     /\ tasks'[id] = last'.res[2]
                     /\ tasks'[id].creator = last'.caller
                     /\ tasks'[id].status = "In Progress"
                     /\ tasks'[id].tags = <<>>
                     /\ tasks'[id].comments = <<>>
                     /\ tasks'[id].priority = ""
                     /\ tasks'[id].updated_at = None
                     /\ \A f \in PayloadFields : tasks'[id][f] = payload[f]]_vars

C4_Witness ==
    /\ last.op = "addTask"
    /\ "assigned_to" \notin DOMAIN last.args[1]
    /\ IsInvalidInput(last.res)
    /\ tasks # <<>>

\* C5: once deleteTask has returned success for an id, getTask on that id
\* returns NotFound for every principal, in that state and in every later one.
C5_DeletedStaysNotFound ==
    /\ \A id \in deleted : \A c \in Principals : IsNotFound(getTask(tasks, id, c).result, id)
    /\ (last.op = "getTask" /\ last.id \in deleted) => IsNotFound(last.res, last.id)

C5_Witness ==
    /\ last.op = "getTask"
    /\ last.id \in deleted
    /\ IsNotFound(last.res, last.id)
    /\ tasks # <<>>

\* C6: completedTask on an existing task with an empty assigned_to returns
\* Unassigned and leaves the store unchanged; on an existing task with an
\* assignee it sets the status to "Completed" and changes nothing else.
C6_CompletedTask ==
    [][(last'.op = "completedTask" /\ last'.id \in DOMAIN tasks) =>
          LET id == last'.id IN
          IF tasks[id].assigned_to = ""
          THEN IsUnassigned(last'.res) /\ tasks' = tasks
          ELSE /\ IsOk(last'.res)
               /\ id \in DOMAIN tasks'
               /\ OthersUnchanged(id)
               /\ tasks'[id] = [tasks[id] EXCEPT !.status = "Completed"]]_vars

C6_Witness ==
    /\ last.op = "completedTask"
    /\ IsUnassigned(last.res)
    /\ last.id \in DOMAIN tasks
    /\ tasks[last.id].assigned_to = ""
    /\ tasks[last.id].status = "In Progress"

\* C7: a stored task to which updateTask, addTags, setTaskPriority,
\* completedTask or addTaskComment has been applied has its updated_at populated.
C7_UpdatedAtPopulated ==
    (/\ last.op \in {"updateTask", "addTags", "setTaskPriority",
                     "completedTask", "addTaskComment"}
     /\ IsOk(last.res)
     /\ last.id \in DOMAIN tasks)
    => tasks[last.id].updated_at # None

\* C8: a successful addTaskComment appends its comment at the end of the
\* task's comments, no other operation changes the comments of a stored task,
\* so the comments of a task are as many as the successful addTaskComment
\* calls on it; on an absent id addTaskComment returns NotFound and changes
\* nothing.
C8_CommentsAppendOnly ==
    /\ [](\A id \in DOMAIN tasks : Len(tasks[id].comments) = commentCalls[id])
    /\ [][\A id \in DOMAIN tasks \cap DOMAIN tasks' :
             IF last'.op = "addTaskComment" /\ last'.id = id
             THEN /\ IsOk(last'.res)
                  /\ tasks'[id].comments = Append(tasks[id].comments, last'.args[1])
             ELSE tasks'[id].comments = tasks[id].comments]_vars
    /\ [][(last'.op = "addTaskComment" /\ last'.id \notin DOMAIN tasks)
             => (IsNotFound(last'.res, last'.id) /\ tasks' = tasks)]_vars

C8_Witness ==
    /\ last.op = "addTaskComment"
    /\ IsOk(last.res)
    /\ last.caller # tasks[last.id].creator
    /\ tasks[last.id].comments = <<"c", "d">>

\* C9: the status of a stored task is "In Progress" or "Completed", and a
\* task that is "Completed" is "Completed" after every step that keeps it.
C9_StatusOneWay ==
    /\ [](\A id \in DOMAIN tasks : tasks[id].status \in {"In Progress", "Completed"})
    /\ [][\A id \in DOMAIN tasks \cap DOMAIN tasks' :
             tasks[id].status = "Completed" => tasks'[id].status = "Completed"]_vars

C9_Witness ==
    /\ last.op = "updateTask"
    /\ IsOk(last.res)
    /\ tasks[last.id].status = "Completed"

\* the number of stored keys that sort before id
Rank(id) == Cardinality({k \in DOMAIN tasks : k < id})

\* page holds the tasks at the positions [offset, offset + limit) of the
\* key-ordered enumeration of the store
IsPage(page, offset, limit) ==
    LET n == Cardinality(DOMAIN tasks)
        len == IF offset >= n THEN 0
               ELSE IF offset + limit > n THEN n - offset ELSE limit
    IN /\ Len(page) = len
       /\ \A i \in 1..Len(page) :
             /\ page[i].id \in DOMAIN tasks
             /\ page[i] = tasks[page[i].id]
             /\ Rank(page[i].id) = offset + i - 1

\* C10: for offset >= 0 and limit >= 0, loadMoreTasks(offset, limit) returns
\* the tasks at the positions [offset, offset + limit) of the key-ordered
\* enumeration, never an error, and leaves the store unchanged;
\* getInitialTasks() returns what loadMoreTasks(0, 4) returns.
C10_Pagination ==
    /\ []((last.op = "loadMoreTasks" /\ last.args[1] >= 0 /\ last.args[2] >= 0)
            => (IsOk(last.res) /\ IsPage(last.res[2], last.args[1], last.args[2])))
    /\ [](last.op = "getInitialTasks"
            => (/\ IsOk(last.res)
                /\ IsPage(last.res[2], 0, 4)
                /\ last.res = loadMoreTasks(tasks, 0, 4).result))
    /\ [][last'.op \in {"loadMoreTasks", "getInitialTasks"} => tasks' = tasks]_vars

C10_Witness ==
    /\ last.op = "loadMoreTasks"
    /\ last.args = <<2, 2>>
    /\ Cardinality(DOMAIN tasks) = 5
    /\ Len(last.res[2]) = 2
    /\ Rank(last.res[2][1].id) = 2

====
